---- MODULE Spec2Model ----
(***************************************************************************)
(* A model of pmd_farc: the FARC archive index (file_name_index.rs), the   *)
(* archive parser and its own index (farc.rs), partitioned sub-file access *)
(* and the hash-indexed archive writer (farc_writer.rs).                   *)
(*                                                                         *)
(* Representation.  A u32 is the pair <<hi, lo>> of its 16-bit halves, so  *)
(* that 32-bit values keep their width.  A Rust String is the sequence of  *)
(* its Unicode scalar values.  Option<T> is a sequence of length 0 (None)  *)
(* or 1 (Some).  A HashMap is a function on its key set.  Positions in a   *)
(* Vec are 0-based as in the source; file_data[id + 1] is the entry at id. *)
(***************************************************************************)
EXTENDS Integers, Sequences, FiniteSets, TLC

VARIABLES
    file_data,          \* FileNameIndex.file_data : Vec<FarcFile>
    file_id_by_crc32,   \* FileNameIndex.file_id_by_crc32 : HashMap<u32, usize>
    file_id_by_string,  \* FileNameIndex.file_id_by_string : HashMap<String, usize>
    source,             \* the bytes of the file behind Farc.file
    farc,               \* Option<Farc>: the archive Farc::new returned
    hashed_files,       \* Option<FarcWriter>: its hashed_files : HashMap<u32, Vec<u8>>
    original,           \* Option<Farc>: the first archive parsed in a round trip
    content_sizes,      \* Option: the lengths of the contents of a FarcWriter
    lock,               \* the Mutex of Farc.file: the view that holds it, if any
    file_position,      \* the position of the file behind the Mutex
    views,              \* the PartitionMutex views open on the archive
    ret                 \* what the last call returned

indexVars == <<file_data, file_id_by_crc32, file_id_by_string>>

farcVars == <<source, farc>>

writerVars == <<hashed_files, original, content_sizes>>

partVars == <<lock, file_position, views>>

vars == <<indexVars, farcVars, writerVars, partVars, ret>>

----------------------------------------------------------------------------
(* Bounds of the model *)

\* the index holds at most this many entries
MaxFiles == 3

----------------------------------------------------------------------------
(* Option and HashMap *)

None == << >>

Some(x) == <<x>>

is_some(o) == Len(o) = 1

is_none(o) == Len(o) = 0

unwrap(o) == o[1]

EmptyMap == [k \in {} |-> 0]

\* HashMap::get
MapGet(m, k) == IF k \in DOMAIN m THEN Some(m[k]) ELSE None

\* the map after HashMap::insert(k, v)
MapPut(m, k, v) == [x \in (DOMAIN m) \cup {k} |-> IF x = k THEN v ELSE m[x]]

\* the map after HashMap::remove(k)
MapRemove(m, k) == [x \in (DOMAIN m) \ {k} |-> m[x]]

----------------------------------------------------------------------------
(* 32-bit words and the name hash *)

RECURSIVE Xor(_, _)
\* bitwise exclusive or of two naturals
Xor(a, b) ==
    IF a = 0 THEN b
    ELSE IF b = 0 THEN a
    ELSE ((a + b) % 2) + 2 * Xor(a \div 2, b \div 2)

\* one bit of the reflected CRC-32: shift right, and subtract the IEEE
\* polynomial 0xEDB88320 when the bit shifted out is set
CrcShift(c) ==
    IF c[2] % 2 = 1
    THEN << Xor(c[1] \div 2, 60856), Xor((c[2] \div 2) + 32768 * (c[1] % 2), 33568) >>
    ELSE << c[1] \div 2, (c[2] \div 2) + 32768 * (c[1] % 2) >>

RECURSIVE CrcBits(_, _)
\* k bits of c shifted out
CrcBits(c, k) == IF k = 0 THEN c ELSE CrcShift(CrcBits(c, k - 1))

\* the 256-entry table of the IEEE polynomial
IEEE_TABLE == [i \in 0..255 |-> CrcBits(<<0, i>>, 8)]

\* one byte: value = table[(value ^ byte) & 0xFF] ^ (value >> 8)
CrcUpdate(value, byte) ==
    LET entry == IEEE_TABLE[Xor(value[2] % 256, byte)]
    IN  << Xor(entry[1], value[1] \div 256),
           Xor(entry[2], (value[2] \div 256) + 256 * (value[1] % 256)) >>

RECURSIVE CrcBytes(_, _)
\* the CRC register after the first n bytes
CrcBytes(bytes, n) ==
    IF n = 0 THEN <<65535, 65535>>
    ELSE CrcUpdate(CrcBytes(bytes, n - 1), bytes[n])

\* crc32::checksum_ieee: initial value and final xor are 0xFFFFFFFF
checksum_ieee(bytes) ==
    LET c == CrcBytes(bytes, Len(bytes))
    IN  << Xor(c[1], 65535), Xor(c[2], 65535) >>

\* char::encode_utf16: one unit below U+10000, else a surrogate pair
encode_utf16(ch) ==
    IF ch < 65536 THEN <<ch>>
    ELSE << 55296 + ((ch - 65536) \div 1024), 56320 + ((ch - 65536) % 1024) >>

\* u16::to_le_bytes
u16_to_le_bytes(u) == << u % 256, u \div 256 >>

RECURSIVE string_to_utf16(_)
string_to_utf16(to_transform) ==
    IF to_transform = << >> THEN << >>
    ELSE LET units == encode_utf16(Head(to_transform))
         IN  (IF Len(units) = 1
              THEN u16_to_le_bytes(units[1])
              ELSE u16_to_le_bytes(units[1]) \o u16_to_le_bytes(units[2]))
             \o string_to_utf16(Tail(to_transform))

\* the names the model calls the index with: "a", "b", and a two-character
\* name (U+041D, U+3545A) whose hash is the hash of "a"
NameA == <<97>>

NameB == <<98>>

NameX == <<1053, 218202>>

Names == {NameA, NameB, NameX}

\* hash_name over the names of the model, computed once
HashOfName == [name \in Names |-> checksum_ieee(string_to_utf16(name))]

\* hash_name: the CRC-32 of the name encoded as UTF-16LE
hash_name(name) == HashOfName[name]


\* the raw hashes the model calls add_file_with_hash and get_file_by_hash
\* with: the hashes of "a" and "b", 0x12345678 and 0
Hashes == {hash_name(NameA), hash_name(NameB), <<4660, 22136>>, <<0, 0>>}

\* the (offset, length) pairs the model adds entries with
Extents == { << <<0, 0>>, <<0, 2>> >>, << <<0, 16>>, <<0, 3>> >> }

----------------------------------------------------------------------------
(* farc_file.rs and file_name_index.rs: the index *)

\* FarcFile::new
FarcFile_new(start, length, name_hash, name) ==
    [start |-> start, length |-> length, name_hash |-> name_hash, name |-> name]

\* FileNameIndex::default()
FileNameIndex_default ==
    [file_data |-> << >>, file_id_by_crc32 |-> EmptyMap, file_id_by_string |-> EmptyMap]

\* Result<(), FileNameError>
Ok == [tag |-> "Ok", hash |-> None, names |-> << >>]

HashAlreadyPresent(hash) ==
    [tag |-> "HashAlreadyPresent", hash |-> Some(hash), names |-> << >>]

HashAlreadyPresentOne(hash, name) ==
    [tag |-> "HashAlreadyPresentOne", hash |-> Some(hash), names |-> <<name>>]

HashAlreadyPresentTwo(hash, name_first, name_second) ==
    [tag |-> "HashAlreadyPresentTwo", hash |-> Some(hash),
     names |-> <<name_first, name_second>>]

NameAlreadyPresent(name) ==
    [tag |-> "NameAlreadyPresent", hash |-> None, names |-> <<name>>]

\* add_file without the removal of the provisionally registered name when the
\* hash collides
add_file_no_rollback(self, farc_file) ==
    LET new_farc_id == Len(self.file_data)
        named == is_some(farc_file.name)
        old_id_by_name ==
            IF named THEN MapGet(self.file_id_by_string, unwrap(farc_file.name))
            ELSE None
        s1 == IF named
              THEN [self EXCEPT !.file_id_by_string =
                        MapPut(@, unwrap(farc_file.name), new_farc_id)]
              ELSE self
    IN  IF named /\ is_some(old_id_by_name)
        THEN [index |-> [s1 EXCEPT !.file_id_by_string =
                            MapPut(@, unwrap(farc_file.name), unwrap(old_id_by_name))],
              result |-> NameAlreadyPresent(unwrap(farc_file.name))]
        ELSE
        LET old_id_by_hash == MapGet(s1.file_id_by_crc32, farc_file.name_hash)
            s2 == [s1 EXCEPT !.file_id_by_crc32 =
                      MapPut(@, farc_file.name_hash, new_farc_id)]
        IN  IF is_some(old_id_by_hash)
            THEN [index |-> [s2 EXCEPT !.file_id_by_crc32 =
                                MapPut(@, farc_file.name_hash, unwrap(old_id_by_hash))],
                  result |-> HashAlreadyPresent(farc_file.name_hash)]
            ELSE [index |-> [s2 EXCEPT !.file_data = Append(@, farc_file)],
                  result |-> Ok]

\* add_file that stores the entry whatever the maps held before
add_file_replace(self, farc_file) ==
    LET new_farc_id == Len(self.file_data)
        s1 == IF is_some(farc_file.name)
              THEN [self EXCEPT !.file_id_by_string =
                        MapPut(@, unwrap(farc_file.name), new_farc_id)]
              ELSE self
        s2 == [s1 EXCEPT !.file_id_by_crc32 =
                  MapPut(@, farc_file.name_hash, new_farc_id)]
    IN  [index |-> [s2 EXCEPT !.file_data = Append(@, farc_file)], result |-> Ok]

\* add_file that reports no name when only the entry already stored has one
add_file_unnamed_report(self, farc_file) ==
    LET new_farc_id == Len(self.file_data)
        named == is_some(farc_file.name)
        old_id_by_name ==
            IF named THEN MapGet(self.file_id_by_string, unwrap(farc_file.name))
            ELSE None
        \* file_id_by_string.insert(farc_name, new_farc_id)
        s1 == IF named
              THEN [self EXCEPT !.file_id_by_string =
                        MapPut(@, unwrap(farc_file.name), new_farc_id)]
              ELSE self
    IN  IF named /\ is_some(old_id_by_name)
        THEN \* the old position is put back
             [index |-> [s1 EXCEPT !.file_id_by_string =
                            MapPut(@, unwrap(farc_file.name), unwrap(old_id_by_name))],
              result |-> NameAlreadyPresent(unwrap(farc_file.name))]
        ELSE
        LET old_id_by_hash == MapGet(s1.file_id_by_crc32, farc_file.name_hash)
            \* file_id_by_crc32.insert(name_hash, new_farc_id)
            s2 == [s1 EXCEPT !.file_id_by_crc32 =
                      MapPut(@, farc_file.name_hash, new_farc_id)]
        IN  IF is_some(old_id_by_hash)
            THEN
            LET s3 == [s2 EXCEPT !.file_id_by_crc32 =
                          MapPut(@, farc_file.name_hash, unwrap(old_id_by_hash))]
                s4 == IF named
                      THEN [s3 EXCEPT !.file_id_by_string =
                                MapRemove(@, unwrap(farc_file.name))]
                      ELSE s3
                old_name == self.file_data[unwrap(old_id_by_hash) + 1].name
            IN  [index |-> s4,
                 result |->
                    IF named
                    THEN IF is_some(old_name)
                         THEN HashAlreadyPresentTwo(farc_file.name_hash,
                                  unwrap(farc_file.name), unwrap(old_name))
                         ELSE HashAlreadyPresentOne(farc_file.name_hash,
                                  unwrap(farc_file.name))
                    ELSE HashAlreadyPresent(farc_file.name_hash)]
            ELSE [index |-> [s2 EXCEPT !.file_data = Append(@, farc_file)],
                  result |-> Ok]

\* FileNameIndex::add_file: the index after the call and what the call returns
add_file(self, farc_file) ==
    LET new_farc_id == Len(self.file_data)
        named == is_some(farc_file.name)
        old_id_by_name ==
            IF named THEN MapGet(self.file_id_by_string, unwrap(farc_file.name))
            ELSE None
        \* file_id_by_string.insert(farc_name, new_farc_id)
        s1 == IF named
              THEN [self EXCEPT !.file_id_by_string =
                        MapPut(@, unwrap(farc_file.name), new_farc_id)]
              ELSE self
    IN  IF named /\ is_some(old_id_by_name)
        THEN \* the old position is put back
             [index |-> [s1 EXCEPT !.file_id_by_string =
                            MapPut(@, unwrap(farc_file.name), unwrap(old_id_by_name))],
              result |-> NameAlreadyPresent(unwrap(farc_file.name))]
        ELSE
        LET old_id_by_hash == MapGet(s1.file_id_by_crc32, farc_file.name_hash)
            \* file_id_by_crc32.insert(name_hash, new_farc_id)
            s2 == [s1 EXCEPT !.file_id_by_crc32 =
                      MapPut(@, farc_file.name_hash, new_farc_id)]
        IN  IF is_some(old_id_by_hash)
            THEN
            LET s3 == [s2 EXCEPT !.file_id_by_crc32 =
                          MapPut(@, farc_file.name_hash, unwrap(old_id_by_hash))]
                s4 == IF named
                      THEN [s3 EXCEPT !.file_id_by_string =
                                MapRemove(@, unwrap(farc_file.name))]
                      ELSE s3
                old_name == self.file_data[unwrap(old_id_by_hash) + 1].name
            IN  [index |-> s4,
                 result |->
                    IF named
                    THEN IF is_some(old_name)
                         THEN HashAlreadyPresentTwo(farc_file.name_hash,
                                  unwrap(farc_file.name), unwrap(old_name))
                         ELSE HashAlreadyPresentOne(farc_file.name_hash,
                                  unwrap(farc_file.name))
                    ELSE IF is_some(old_name)
                         THEN HashAlreadyPresentOne(farc_file.name_hash,
                                  unwrap(old_name))
                         ELSE HashAlreadyPresent(farc_file.name_hash)]
            ELSE [index |-> [s2 EXCEPT !.file_data = Append(@, farc_file)],
                  result |-> Ok]

\* FileNameIndex::add_file_with_hash
add_file_with_hash(self, hash, offset, lenght) ==
    add_file(self, FarcFile_new(offset, lenght, hash, None))

RECURSIVE swap_bytes(_)
\* every pair of bytes exchanged
swap_bytes(bytes) ==
    IF Len(bytes) < 2 THEN bytes
    ELSE <<bytes[2], bytes[1]>> \o swap_bytes(SubSeq(bytes, 3, Len(bytes)))

\* add_file_with_name hashing the name encoded as UTF-16BE
add_file_with_name_be(self, name, offset, lenght) ==
    add_file(self, FarcFile_new(offset, lenght,
                 checksum_ieee(swap_bytes(string_to_utf16(name))), Some(name)))

\* FileNameIndex::add_file_with_name
add_file_with_name(self, name, offset, lenght) ==
    add_file(self, FarcFile_new(offset, lenght, hash_name(name), Some(name)))

\* check_file_name without the test that the entry has no name yet
check_file_name_overwrite(self, name) ==
    LET hash == hash_name(name)
        id == MapGet(self.file_id_by_crc32, hash)
    IN  IF is_some(id)
        THEN [index |-> [self EXCEPT
                  !.file_data[unwrap(id) + 1].name = Some(name),
                  !.file_id_by_string = MapPut(@, name, unwrap(id))],
              result |-> TRUE]
        ELSE [index |-> self, result |-> FALSE]

\* check_file_name that answers true for a name that is already recorded
check_file_name_always_true(self, name) ==
    LET hash == hash_name(name)
        id == MapGet(self.file_id_by_crc32, hash)
    IN  IF is_some(id)
        THEN IF is_none(self.file_data[unwrap(id) + 1].name)
             THEN [index |-> [self EXCEPT
                       !.file_data[unwrap(id) + 1].name = Some(name),
                       !.file_id_by_string = MapPut(@, name, unwrap(id))],
                   result |-> TRUE]
             ELSE [index |-> self,
                   result |-> self.file_data[unwrap(id) + 1].name = Some(name)]
        ELSE [index |-> self, result |-> FALSE]

\* check_file_name that records the name in the entry and not in the name map
check_file_name_no_map(self, name) ==
    LET hash == hash_name(name)
        id == MapGet(self.file_id_by_crc32, hash)
    IN  IF is_some(id)
        THEN IF is_none(self.file_data[unwrap(id) + 1].name)
             THEN [index |-> [self EXCEPT
                       !.file_data[unwrap(id) + 1].name = Some(name)],
                   result |-> TRUE]
             ELSE [index |-> self, result |-> FALSE]
        ELSE [index |-> self, result |-> FALSE]

\* FileNameIndex::check_file_name: the index after the call and the answer
check_file_name(self, name) ==
    LET hash == hash_name(name)
        id == MapGet(self.file_id_by_crc32, hash)
    IN  IF is_some(id)
        THEN IF is_none(self.file_data[unwrap(id) + 1].name)
             THEN [index |-> [self EXCEPT
                       !.file_data[unwrap(id) + 1].name = Some(name),
                       !.file_id_by_string = MapPut(@, name, unwrap(id))],
                   result |-> TRUE]
             ELSE [index |-> self, result |-> FALSE]
        ELSE [index |-> self, result |-> FALSE]

\* get_file_by_name that returns the entry with the name's hash whatever
\* name that entry carries
get_file_by_name_any(self, name) ==
    LET direct == MapGet(self.file_id_by_string, name)
    IN  IF is_some(direct)
        THEN Some(self.file_data[unwrap(direct) + 1])
        ELSE LET file_id == MapGet(self.file_id_by_crc32, hash_name(name))
             IN  IF is_some(file_id)
                 THEN Some(self.file_data[unwrap(file_id) + 1])
                 ELSE None

\* FileNameIndex::get_file_by_name
get_file_by_name(self, name) ==
    LET direct == MapGet(self.file_id_by_string, name)
    IN  IF is_some(direct)
        THEN Some(self.file_data[unwrap(direct) + 1])
        ELSE LET hash == hash_name(name)
                 file_id == MapGet(self.file_id_by_crc32, hash)
             IN  IF is_some(file_id)
                 THEN LET file == self.file_data[unwrap(file_id) + 1]
                      IN  IF is_some(file.name) THEN None ELSE Some(file)
                 ELSE None

\* FileNameIndex::get_file_by_hash
get_file_by_hash(self, hash) ==
    LET id == MapGet(self.file_id_by_crc32, hash)
    IN  IF is_some(id) THEN Some(self.file_data[unwrap(id) + 1]) ELSE None

\* FileNameIndex::len
len(self) == Len(self.file_data)

----------------------------------------------------------------------------
(* The index as a state machine: one action per public method *)

\* the index the variables hold
index ==
    [file_data |-> file_data, file_id_by_crc32 |-> file_id_by_crc32,
     file_id_by_string |-> file_id_by_string]

\* the variables take the fields of self
StoreIndex(self) ==
    /\ file_data' = self.file_data
    /\ file_id_by_crc32' = self.file_id_by_crc32
    /\ file_id_by_string' = self.file_id_by_string

\* no view is open
idlePart == lock = None /\ file_position = 0 /\ views = << >>

Returned(op, name, hash, result) ==
    [op |-> op, name |-> name, hash |-> hash, result |-> result]

IndexInit ==
    /\ file_data = FileNameIndex_default.file_data
    /\ file_id_by_crc32 = FileNameIndex_default.file_id_by_crc32
    /\ file_id_by_string = FileNameIndex_default.file_id_by_string
    /\ ret = Returned("default", None, None, Ok)
    /\ source = << >> /\ farc = None
    /\ hashed_files = None /\ original = None
    /\ content_sizes = None
    /\ idlePart

AddFileWithHash ==
    \E hash \in Hashes, e \in Extents :
        LET r == add_file_with_hash(index, hash, e[1], e[2])
        IN  /\ len(index) < MaxFiles \/ r.result # Ok
            /\ StoreIndex(r.index)
            /\ ret' = Returned("add_file_with_hash", None, Some(hash), r.result)
            /\ UNCHANGED <<farcVars, writerVars, partVars>>

AddFileWithName ==
    \E name \in Names, e \in Extents :
        LET r == add_file_with_name(index, name, e[1], e[2])
        IN  /\ len(index) < MaxFiles \/ r.result # Ok
            /\ StoreIndex(r.index)
            /\ ret' = Returned("add_file_with_name", Some(name), None, r.result)
            /\ UNCHANGED <<farcVars, writerVars, partVars>>

CheckFileName ==
    \E name \in Names :
        LET r == check_file_name(index, name)
        IN  /\ StoreIndex(r.index)
            /\ ret' = Returned("check_file_name", Some(name), None, r.result)
            /\ UNCHANGED <<farcVars, writerVars, partVars>>

GetFileByName ==
    \E name \in Names :
        /\ ret' = Returned("get_file_by_name", Some(name), None,
                           get_file_by_name(index, name))
        /\ UNCHANGED <<indexVars, farcVars, writerVars, partVars>>

GetFileByHash ==
    \E hash \in Hashes :
        /\ ret' = Returned("get_file_by_hash", None, Some(hash),
                           get_file_by_hash(index, hash))
        /\ UNCHANGED <<indexVars, farcVars, writerVars, partVars>>

IndexNext ==
    \/ AddFileWithHash
    \/ AddFileWithName
    \/ CheckFileName
    \/ GetFileByName
    \/ GetFileByHash

SpecIndex == IndexInit /\ [][IndexNext]_vars

----------------------------------------------------------------------------
(* farc.rs: reading a FARC file *)

\* the u32 of a natural below 2^31
U32(n) == << n \div 65536, n % 65536 >>

\* a u32 below 2^16, as files of the model are shorter than that
Small(u) == u[1] = 0

u32_from_le_bytes(b) == << b[4] * 256 + b[3], b[2] * 256 + b[1] >>

u16_from_le_bytes(b) == b[2] * 256 + b[1]

\* u32 + u32: the sum modulo 2^32, and whether it overflowed
u32_add(a, b) ==
    LET lo == a[2] + b[2]
        hi == a[1] + b[1] + (lo \div 65536)
    IN  [value |-> << hi % 65536, lo % 65536 >>, overflow |-> hi >= 65536]

\* Read::read_exact of n bytes at position pos of a stream of bytes: None is
\* the io::Error of a read past the end
read_exact(bytes, pos, n) ==
    IF pos + n <= Len(bytes) THEN Some(SubSeq(bytes, pos + 1, pos + n)) ELSE None

\* read_u32_le at position pos
read_u32_le(bytes, pos) ==
    LET buffer == read_exact(bytes, pos, 4)
    IN  IF is_some(buffer) THEN Some(u32_from_le_bytes(unwrap(buffer))) ELSE None

\* read_u16_le at position pos
read_u16_le(bytes, pos) ==
    LET buffer == read_exact(bytes, pos, 2)
    IN  IF is_some(buffer) THEN Some(u16_from_le_bytes(unwrap(buffer))) ELSE None

RECURSIVE read_units(_, _)
\* the loop of read_null_terminated_utf16_string: the code units before the
\* first zero unit, or None when the stream ends first
read_units(bytes, pos) ==
    LET chara == read_u16_le(bytes, pos)
    IN  IF is_none(chara) THEN None
        ELSE IF unwrap(chara) = 0 THEN Some(<< >>)
        ELSE LET rest == read_units(bytes, pos + 2)
             IN  IF is_none(rest) THEN None
                 ELSE Some(<<unwrap(chara)>> \o unwrap(rest))

RECURSIVE from_utf16(_)
\* String::from_utf16: the scalar values, or None (FromUtf16Error) for a
\* surrogate that is not half of a pair
from_utf16(units) ==
    IF units = << >> THEN Some(<< >>)
    ELSE LET u == Head(units)
         IN  IF u < 55296 \/ u > 57343
             THEN LET rest == from_utf16(Tail(units))
                  IN  IF is_none(rest) THEN None ELSE Some(<<u>> \o unwrap(rest))
             ELSE IF u <= 56319 /\ Len(units) >= 2
                     /\ units[2] >= 56320 /\ units[2] <= 57343
             THEN LET rest == from_utf16(Tail(Tail(units)))
                      ch == 65536 + (u - 55296) * 1024 + (units[2] - 56320)
                  IN  IF is_none(rest) THEN None ELSE Some(<<ch>> \o unwrap(rest))
             ELSE None

\* Result<_, FarcError> and the abort of the process
FarcOk(value) == [tag |-> "Ok", error |-> "", value |-> Some(value)]

FarcErr(error) == [tag |-> "Err", error |-> error, value |-> None]

Panic(message) == [tag |-> "Panic", error |-> message, value |-> None]

\* read_null_terminated_utf16_string at position pos
read_null_terminated_utf16_string(bytes, pos) ==
    LET buffer == read_units(bytes, pos)
    IN  IF is_none(buffer) THEN FarcErr("IOerror")
        ELSE LET string == from_utf16(unwrap(buffer))
             IN  IF is_none(string) THEN FarcErr("FromUtf16Error")
                 ELSE FarcOk(unwrap(string))

\* FarcFile::new of farc.rs
farc_FarcFile_new(start, length) == [start |-> start, length |-> length]

\* FileNameIndex::default() of farc.rs
farc_FileNameIndex_default ==
    [file_data |-> << >>, name_crc32 |-> EmptyMap, name_string |-> EmptyMap]

\* FileNameIndex::add_file_with_hash of farc.rs
farc_add_file_with_hash(self, hash, offset, length) ==
    LET file_id == Len(self.file_data)
    IN  [self EXCEPT !.file_data = Append(@, farc_FarcFile_new(offset, length)),
                     !.name_crc32 = MapPut(@, hash, file_id)]

\* FileNameIndex::add_file_with_name of farc.rs
farc_add_file_with_name(self, name, offset, lenght) ==
    LET file_id == Len(self.file_data)
    IN  [self EXCEPT !.file_data = Append(@, farc_FarcFile_new(offset, lenght)),
                     !.name_string = MapPut(@, name, file_id)]

\* io_partition::PartitionMutex::new(file, start, length): the view, or None
\* (the creation error) when the range is not inside the source
PartitionMutex_new(file, start, length) ==
    IF Small(start) /\ Small(length) /\ start[2] + length[2] <= Len(file)
    THEN Some([start |-> start[2], length |-> length[2]])
    ELSE None

\* the bytes a view spans
ViewBytes(file, view) == SubSeq(file, view.start + 1, view.start + view.length)

\* pmd_sir0::Sir0::new on the bytes of its partition: the magic "SIR0", the
\* offset of the header, the offset of the pointer list that ends the header
Sir0_new(part) ==
    LET magic == read_exact(part, 0, 4)
        header_offset == read_u32_le(part, 4)
        pointer_offset == read_u32_le(part, 8)
    IN  IF is_none(magic) \/ is_none(header_offset) \/ is_none(pointer_offset)
        THEN FarcErr("CreateSir0Error")
        ELSE IF unwrap(magic) # <<83, 73, 82, 48>>
        THEN FarcErr("CreateSir0Error")
        ELSE IF ~ Small(unwrap(header_offset)) \/ ~ Small(unwrap(pointer_offset))
                \/ unwrap(pointer_offset)[2] < unwrap(header_offset)[2]
                \/ unwrap(pointer_offset)[2] > Len(part)
        THEN FarcErr("CreateSir0Error")
        ELSE FarcOk([header |-> SubSeq(part, unwrap(header_offset)[2] + 1,
                                       unwrap(pointer_offset)[2]),
                     file |-> part])

\* all_data_offset + data_offset in u32 arithmetic: a build with overflow
\* checks aborts on overflow, a build without them wraps
add_data_offset(all_data_offset, data_offset, overflow_checks) ==
    LET sum == u32_add(all_data_offset, data_offset)
    IN  IF sum.overflow /\ overflow_checks
        THEN Panic("attempt to add with overflow")
        ELSE FarcOk(sum.value)

RECURSIVE parse_entries(_, _, _)
\* the loop of Farc::new over the entries file_index.. of the table
parse_entries(t, file_index, idx) ==
    IF Small(t.file_count) /\ file_index >= t.file_count[2]
    THEN FarcOk(idx)
    ELSE IF ~ Small(t.sir0_data_offset)
    THEN FarcErr("IOerror")
    ELSE
    LET pos == t.sir0_data_offset[2] + file_index * 12
        filename_offset_or_hash == read_u32_le(t.sir0_file, pos)
        data_offset == read_u32_le(t.sir0_file, pos + 4)
        data_length == read_u32_le(t.sir0_file, pos + 8)
    IN  IF is_none(filename_offset_or_hash) \/ is_none(data_offset)
           \/ is_none(data_length)
        THEN FarcErr("IOerror")
        ELSE IF t.sir0_fat5_type = U32(0)
        THEN IF ~ Small(unwrap(filename_offset_or_hash))
             THEN FarcErr("IOerror")
             ELSE
             LET name == read_null_terminated_utf16_string(
                             t.sir0_file, unwrap(filename_offset_or_hash)[2])
                 start == add_data_offset(t.all_data_offset, unwrap(data_offset),
                                          t.overflow_checks)
             IN  IF name.tag # "Ok" THEN name
                 ELSE IF start.tag # "Ok" THEN start
                 ELSE parse_entries(t, file_index + 1,
                          farc_add_file_with_name(idx, unwrap(name.value),
                              unwrap(start.value), unwrap(data_length)))
        ELSE
             LET start == add_data_offset(t.all_data_offset, unwrap(data_offset),
                                          t.overflow_checks)
             IN  IF start.tag # "Ok" THEN start
                 ELSE parse_entries(t, file_index + 1,
                          farc_add_file_with_hash(idx, unwrap(filename_offset_or_hash),
                              unwrap(start.value), unwrap(data_length)))

\* Farc::new with the header bytes h of the Sir0 at least 12 bytes long
Farc_new_table(file, all_data_offset, sir0, overflow_checks) ==
    LET h == sir0.header
        sir0_data_offset == u32_from_le_bytes(SubSeq(h, 1, 4))
        file_count == u32_from_le_bytes(SubSeq(h, 5, 8))
        sir0_fat5_type == u32_from_le_bytes(SubSeq(h, 9, 12))
    IN  IF sir0_fat5_type \notin {U32(0), U32(1)}
        THEN FarcErr("UnsuportedFat5Type")
        ELSE LET parsed == parse_entries(
                     [sir0_file |-> sir0.file, sir0_data_offset |-> sir0_data_offset,
                      file_count |-> file_count, sir0_fat5_type |-> sir0_fat5_type,
                      all_data_offset |-> all_data_offset,
                      overflow_checks |-> overflow_checks],
                     0, farc_FileNameIndex_default)
             IN  IF parsed.tag # "Ok" THEN parsed
                 ELSE FarcOk([file |-> file, index |-> unwrap(parsed.value)])

\* Farc::new on a file of bytes: Ok with the Farc, an Err, or the abort
Farc_new(file, overflow_checks) ==
    LET sir0_type == read_u32_le(file, 32)
        sir0_offset == read_u32_le(file, 36)
        sir0_lenght == read_u32_le(file, 40)
        all_data_offset == read_u32_le(file, 44)
    IN  IF is_none(sir0_type) THEN FarcErr("IOerror")
        ELSE IF unwrap(sir0_type) \notin {U32(4), U32(5)} THEN FarcErr("InvalidType")
        ELSE IF is_none(sir0_offset) \/ is_none(sir0_lenght) \/ is_none(all_data_offset)
        THEN FarcErr("IOerror")
        ELSE
        LET sir0_partition ==
                PartitionMutex_new(file, unwrap(sir0_offset), unwrap(sir0_lenght))
        IN  IF is_none(sir0_partition) THEN FarcErr("PartitionCreationError")
            ELSE
            LET sir0 == Sir0_new(ViewBytes(file, unwrap(sir0_partition)))
            IN  IF sir0.tag # "Ok" THEN sir0
                ELSE IF Len(unwrap(sir0.value).header) < 12
                THEN Panic("index out of bounds")
                ELSE Farc_new_table(file, unwrap(all_data_offset),
                                    unwrap(sir0.value), overflow_checks)

\* check_file_name of farc.rs that leaves the hash in name_crc32
farc_check_file_name_keep_hash(self, name) ==
    LET hash == hash_name(name)
    IN  IF hash \in DOMAIN self.name_crc32
        THEN LET file_id == self.name_crc32[hash]
             IN  IF name \in DOMAIN self.name_string
                 THEN [index |-> [self EXCEPT !.name_string = MapPut(@, name, file_id)],
                       result |-> Panic("hash mismach")]
                 ELSE [index |-> [self EXCEPT !.name_string = MapPut(@, name, file_id)],
                       result |-> FarcOk(TRUE)]
        ELSE [index |-> self, result |-> FarcOk(FALSE)]

\* FileNameIndex::check_file_name of farc.rs: the index after the call and the
\* answer, or the abort
farc_check_file_name(self, name) ==
    LET hash == hash_name(name)
    IN  IF hash \in DOMAIN self.name_crc32
        THEN LET file_id == self.name_crc32[hash]
             IN  IF name \in DOMAIN self.name_string
                 THEN [index |-> [self EXCEPT !.name_crc32 = MapRemove(@, hash),
                                              !.name_string = MapPut(@, name, file_id)],
                       result |-> Panic("hash mismach")]
                 ELSE [index |-> [self EXCEPT !.name_crc32 = MapRemove(@, hash),
                                              !.name_string = MapPut(@, name, file_id)],
                       result |-> FarcOk(TRUE)]
        ELSE [index |-> self, result |-> FarcOk(FALSE)]

\* Vec::get(id).cloned()
VecGet(vec, id) ==
    IF id < Len(vec) THEN Some(vec[id + 1]) ELSE None

\* FileNameIndex::get_named_file_data of farc.rs
get_named_file_data(self, name) ==
    LET by_name == MapGet(self.name_string, name)
    IN  IF is_some(by_name) THEN VecGet(self.file_data, unwrap(by_name))
        ELSE LET by_hash == MapGet(self.name_crc32, hash_name(name))
             IN  IF is_some(by_hash) THEN VecGet(self.file_data, unwrap(by_hash))
                 ELSE None

\* FileNameIndex::get_unnamed_file_data of farc.rs
get_unnamed_file_data(self, hash) ==
    LET by_hash == MapGet(self.name_crc32, hash)
    IN  IF is_some(by_hash) THEN VecGet(self.file_data, unwrap(by_hash)) ELSE None

\* create_partition_from_data with the start and the length in each other's
\* place
create_partition_from_data_swapped(self, data) ==
    LET partition == PartitionMutex_new(self.file, data.length, data.start)
    IN  IF is_none(partition) THEN FarcErr("PartitionCreationError")
        ELSE FarcOk(unwrap(partition))

\* Farc::create_partition_from_data
create_partition_from_data(self, data) ==
    LET partition == PartitionMutex_new(self.file, data.start, data.length)
    IN  IF is_none(partition) THEN FarcErr("PartitionCreationError")
        ELSE FarcOk(unwrap(partition))

\* Farc::get_named_file
get_named_file(self, name) ==
    LET data == get_named_file_data(self.index, name)
    IN  IF is_none(data) THEN FarcErr("NamedFileNotFound")
        ELSE create_partition_from_data(self, unwrap(data))

\* Farc::get_unnamed_file
get_unnamed_file(self, hash) ==
    LET data == get_unnamed_file_data(self.index, hash)
    IN  IF is_none(data) THEN FarcErr("HashedFileNotFound")
        ELSE create_partition_from_data(self, unwrap(data))

\* Farc::file_count_hashed
file_count_hashed(self) == Cardinality(DOMAIN self.index.name_crc32)

\* Farc::file_count_named
file_count_named(self) == Cardinality(DOMAIN self.index.name_string)

\* Farc::file_count
file_count(self) == file_count_hashed(self) + file_count_named(self)

\* Farc::iter_name
iter_name(self) == DOMAIN self.index.name_string

\* Farc::iter_hash
iter_hash(self) == DOMAIN self.index.name_crc32

----------------------------------------------------------------------------
(* farc_writer.rs: writing a hash-indexed FARC file *)

\* n zero bytes
Zeros(n) == [i \in 1..n |-> 0]

\* the usize or u64 n as a u32: None is the TryFromIntError (TooBig)
try_into_u32(n) ==
    IF n \div 65536 < 65536 THEN Some(<< n \div 65536, n % 65536 >>) ELSE None

\* WriteBytesExt::write_u32::<LE>
u32_to_le_bytes(u) == << u[2] % 256, u[2] \div 256, u[1] % 256, u[1] \div 256 >>

\* the order of u32
u32_less(a, b) == a[1] < b[1] \/ (a[1] = b[1] /\ a[2] < b[2])

RECURSIVE sort_hashes(_)
\* the keys of the entry set in ascending order
sort_hashes(hashes) ==
    IF hashes = {} THEN << >>
    ELSE LET least == CHOOSE h \in hashes : \A g \in hashes \ {h} : u32_less(h, g)
         IN  <<least>> \o sort_hashes(hashes \ {least})

\* the padding of the meta file to the next multiple of 16
meta_padding(position) ==
    IF position % 16 # 0 THEN Zeros(16 - (position % 16)) ELSE << >>

\* the padding written after an entry of the storage file
storage_padding(position) ==
    IF position % 16 # 0 THEN Zeros(position % 16) ELSE << >>

RECURSIVE write_entries(_, _, _, _)
\* the loop of write_hashed over hash_sorted[i..]: the storage file and the
\* table of the meta file, or TooBig
write_entries(self_files, hash_sorted, i, acc) ==
    IF i > Len(hash_sorted) THEN acc
    ELSE
    LET file_hash == hash_sorted[i]
        file_content == self_files[file_hash]
        file_start == Len(acc.storage_file)
        file_lenght == Len(file_content)
        written == acc.storage_file \o file_content
        storage_file == written \o storage_padding(Len(written))
        start32 == try_into_u32(file_start)
        lenght32 == try_into_u32(file_lenght)
    IN  IF is_none(start32) \/ is_none(lenght32)
        THEN [acc EXCEPT !.too_big = TRUE]
        ELSE write_entries(self_files, hash_sorted, i + 1,
                 [acc EXCEPT !.storage_file = storage_file,
                             !.meta_file = @ \o u32_to_le_bytes(file_hash)
                                             \o u32_to_le_bytes(unwrap(start32))
                                             \o u32_to_le_bytes(unwrap(lenght32))])

RECURSIVE sir0_pointer_bytes(_)
\* one offset of the pointer list: 7 bits a byte, the high bit set on every
\* byte but the last
sir0_pointer_bytes(n) ==
    IF n < 128 THEN <<n>>
    ELSE LET high == sir0_pointer_bytes(n \div 128)
         IN  [k \in 1..Len(high) |-> IF high[k] < 128 THEN high[k] + 128 ELSE high[k]]
             \o <<n % 128>>

RECURSIVE write_sir0_footer(_, _)
\* pmd_sir0::write_sir0_footer: every pointer as its distance from the one
\* before
write_sir0_footer(list, latest) ==
    IF list = << >> THEN << >>
    ELSE sir0_pointer_bytes(Head(list) - latest)
         \o write_sir0_footer(Tail(list), Head(list))

\* pmd_sir0::write_sir0_header: the magic and the two offsets
write_sir0_header(header_position, footer_position) ==
    <<83, 73, 82, 48>> \o u32_to_le_bytes(header_position)
                       \o u32_to_le_bytes(footer_position)

\* the sir0 (meta) file of write_hashed and the positions recorded on the way
write_meta(table, count) ==
    LET pointer3 == Len(table)
        padded == table \o meta_padding(Len(table))
        sir0_header_position == Len(padded)
        with_header == padded \o u32_to_le_bytes(U32(16))
                              \o u32_to_le_bytes(count)
                              \o u32_to_le_bytes(U32(1))
        aligned == with_header \o meta_padding(Len(with_header))
        sir0_footer_position == Len(aligned)
        meta_pointer == <<4, 8, pointer3>>
        with_footer == aligned \o write_sir0_footer(meta_pointer, 0)
        whole == with_footer \o meta_padding(Len(with_footer))
        header == write_sir0_header(U32(sir0_header_position),
                                    U32(sir0_footer_position))
    IN  [meta_file |-> header \o SubSeq(whole, Len(header) + 1, Len(whole)),
         meta_pointer |-> meta_pointer,
         sir0_header_position |-> sir0_header_position,
         sir0_footer_position |-> sir0_footer_position]

\* write_farc_header with the end of the meta file, before the padding to 256,
\* as the offset of the data
write_farc_header_no_padding(meta_file_lenght, storage_start, storage_file_lenght) ==
    <<70, 65, 82, 67>>
    \o u32_to_le_bytes(U32(0)) \o u32_to_le_bytes(U32(0))
    \o u32_to_le_bytes(U32(2)) \o u32_to_le_bytes(U32(0))
    \o u32_to_le_bytes(U32(0)) \o u32_to_le_bytes(U32(7))
    \o <<164, 60, 234, 119>>
    \o u32_to_le_bytes(U32(5))
    \o u32_to_le_bytes(U32(128))
    \o u32_to_le_bytes(meta_file_lenght)
    \o u32_to_le_bytes(u32_add(U32(128), meta_file_lenght).value)
    \o u32_to_le_bytes(storage_file_lenght)
    \o Zeros(128 - 52)

\* the outer header of write_hashed, 0x80 bytes
write_farc_header(meta_file_lenght, storage_start, storage_file_lenght) ==
    <<70, 65, 82, 67>>
    \o u32_to_le_bytes(U32(0)) \o u32_to_le_bytes(U32(0))
    \o u32_to_le_bytes(U32(2)) \o u32_to_le_bytes(U32(0))
    \o u32_to_le_bytes(U32(0)) \o u32_to_le_bytes(U32(7))
    \o <<164, 60, 234, 119>>
    \o u32_to_le_bytes(U32(5))
    \o u32_to_le_bytes(U32(128))
    \o u32_to_le_bytes(meta_file_lenght)
    \o u32_to_le_bytes(storage_start)
    \o u32_to_le_bytes(storage_file_lenght)
    \o Zeros(128 - 52)

\* write_hashed that does not write the padding between the meta file and the
\* storage file
write_hashed_no_gap(self_files) ==
    LET hash_sorted == sort_hashes(DOMAIN self_files)
        entries == write_entries(self_files, hash_sorted, 1,
                       [storage_file |-> << >>, meta_file |-> Zeros(12) \o Zeros(4),
                        too_big |-> FALSE])
        count == try_into_u32(Cardinality(DOMAIN self_files))
    IN  IF entries.too_big \/ is_none(count) THEN [tag |-> "TooBig", file |-> << >>]
        ELSE
        LET meta == write_meta(entries.meta_file, unwrap(count))
            meta_file_lenght == try_into_u32(Len(meta.meta_file))
            storage_file_lenght == try_into_u32(Len(entries.storage_file))
        IN  IF is_none(meta_file_lenght) \/ is_none(storage_file_lenght)
            THEN [tag |-> "TooBig", file |-> << >>]
            ELSE
            LET no_padding_storage_start == 128 + Len(meta.meta_file)
                padding_size_storage_start ==
                    IF no_padding_storage_start % 256 # 0
                    THEN 256 - (no_padding_storage_start % 256)
                    ELSE 0
                storage_start == no_padding_storage_start + padding_size_storage_start
            IN  [tag |-> "Ok",
                 file |-> write_farc_header(unwrap(meta_file_lenght),
                              U32(storage_start),
                              U32(Len(entries.storage_file) + 112))
                          \o meta.meta_file
                          \o entries.storage_file]

\* FarcWriter::write_hashed: the bytes written, or TooBig
write_hashed(self_files) ==
    LET hash_sorted == sort_hashes(DOMAIN self_files)
        entries == write_entries(self_files, hash_sorted, 1,
                       [storage_file |-> << >>, meta_file |-> Zeros(12) \o Zeros(4),
                        too_big |-> FALSE])
        count == try_into_u32(Cardinality(DOMAIN self_files))
    IN  IF entries.too_big \/ is_none(count) THEN [tag |-> "TooBig", file |-> << >>]
        ELSE
        LET meta == write_meta(entries.meta_file, unwrap(count))
            meta_file_lenght == try_into_u32(Len(meta.meta_file))
            storage_file_lenght == try_into_u32(Len(entries.storage_file))
        IN  IF is_none(meta_file_lenght) \/ is_none(storage_file_lenght)
            THEN [tag |-> "TooBig", file |-> << >>]
            ELSE
            LET no_padding_storage_start == 128 + Len(meta.meta_file)
                padding_size_storage_start ==
                    IF no_padding_storage_start % 256 # 0
                    THEN 256 - (no_padding_storage_start % 256)
                    ELSE 0
                storage_start == no_padding_storage_start + padding_size_storage_start
            IN  [tag |-> "Ok",
                 file |-> write_farc_header(unwrap(meta_file_lenght),
                              U32(storage_start),
                              U32(Len(entries.storage_file) + 112))
                          \o meta.meta_file
                          \o Zeros(padding_size_storage_start)
                          \o entries.storage_file]

\* FarcWriter::add_hashed_file
add_hashed_file(self_files, hash, content) == MapPut(self_files, hash, content)

----------------------------------------------------------------------------
(* FARC files given to Farc::new *)

RECURSIVE Concat(_)
\* the byte strings of a sequence, one after the other
Concat(seqs) == IF seqs = << >> THEN << >> ELSE Head(seqs) \o Concat(Tail(seqs))

\* the code units of a name and the zero unit that ends it, as they lie in a
\* file
NameBytes(units) ==
    Concat([k \in 1..Len(units) |-> u16_to_le_bytes(units[k])]) \o <<0, 0>>

RECURSIVE SumLen(_, _)
\* the length of the first k byte strings together
SumLen(seqs, k) == IF k = 0 THEN 0 ELSE SumLen(seqs, k - 1) + Len(seqs[k])

\* a file in the layout Farc::new reads: the outer header with the magic at 0
\* and the four u32 at 0x20, the Sir0 block at 0x30 (magic, offset of the
\* header, offset of the pointer list, the table of 12-byte entries at 16, the
\* names, the header of header_len bytes, the pointer list), the data
Archive(p) ==
    LET n == Len(p.keys)
        table == Concat([k \in 1..n |->
                     u32_to_le_bytes(p.keys[k])
                     \o u32_to_le_bytes(U32(SumLen(p.contents, k - 1)))
                     \o u32_to_le_bytes(U32(Len(p.contents[k])))])
        header_offset == 16 + Len(table) + Len(p.names)
        header == SubSeq(u32_to_le_bytes(U32(16)) \o u32_to_le_bytes(p.count)
                         \o u32_to_le_bytes(U32(p.kind)), 1, p.header_len)
        sir0 == <<83, 73, 82, 48>>
                \o u32_to_le_bytes(U32(header_offset))
                \o u32_to_le_bytes(U32(header_offset + Len(header)))
                \o Zeros(4) \o table \o p.names \o header \o <<4, 4, 0>>
        all_data_offset == IF is_some(p.all_data_offset)
                           THEN unwrap(p.all_data_offset)
                           ELSE U32(48 + Len(sir0))
    IN  p.magic \o Zeros(28)
        \o u32_to_le_bytes(U32(p.sir0_type)) \o u32_to_le_bytes(U32(48))
        \o u32_to_le_bytes(U32(Len(sir0))) \o u32_to_le_bytes(all_data_offset)
        \o sir0 \o Concat(p.contents)

\* the layout of a hash-indexed file (table kind 1)
HashLayout(hashes, contents) ==
    [magic |-> <<70, 65, 82, 67>>,
     sir0_type |-> 5, kind |-> 1, keys |-> hashes, contents |-> contents,
     names |-> << >>, count |-> U32(Len(hashes)), header_len |-> 12,
     all_data_offset |-> None]

\* the layout of a name-indexed file (table kind 0): the key of an entry is
\* the offset of its name in the Sir0 block
NameLayout(units, contents) ==
    LET n == Len(units)
        blobs == [k \in 1..n |-> NameBytes(units[k])]
    IN  [magic |-> <<70, 65, 82, 67>>, sir0_type |-> 5, kind |-> 0,
         keys |-> [k \in 1..n |-> U32(16 + 12 * n + SumLen(blobs, k - 1))],
         contents |-> contents, names |-> Concat(blobs), count |-> U32(n),
         header_len |-> 12, all_data_offset |-> None]

\* the code units of a name
Utf16(name) == Concat([k \in 1..Len(name) |-> encode_utf16(name[k])])

\* well-formed files: no entry, two hashes, one hash twice, two names, one name
\* twice, two names of one hash, a name that is not UTF-16
BaseLayouts ==
    { HashLayout(<< >>, << >>),
      HashLayout(<<hash_name(NameA), <<4660, 22136>> >>, << <<104, 105>>, <<1, 2, 3>> >>),
      HashLayout(<<hash_name(NameA), hash_name(NameA)>>, << <<1>>, <<2, 3>> >>),
      NameLayout(<<Utf16(NameA), Utf16(NameB)>>, << <<104, 105>>, <<1, 2, 3>> >>),
      NameLayout(<<Utf16(NameA), Utf16(NameA)>>, << <<1>>, <<2, 3>> >>),
      NameLayout(<<Utf16(NameA), Utf16(NameX)>>, << <<1>>, <<2, 3>> >>),
      NameLayout(<< <<55296, 97>> >>, << <<1>> >>) }

\* a layout, and the layout with one field changed
Variations(p) ==
    { p,
      [p EXCEPT !.magic = <<83, 73, 82, 48>>],
      [p EXCEPT !.sir0_type = 4],
      [p EXCEPT !.sir0_type = 6],
      [p EXCEPT !.kind = 2],
      [p EXCEPT !.header_len = 11],
      [p EXCEPT !.header_len = 0],
      [p EXCEPT !.count = U32(Len(p.keys) + 1)],
      [p EXCEPT !.count = <<65535, 65535>>],
      [p EXCEPT !.all_data_offset = Some(<<0, 0>>)],
      [p EXCEPT !.all_data_offset = Some(<<65535, 65535>>)] }

\* the lengths files are cut to
Cuts == {0, 20, 34, 38, 42, 46, 50, 60, 64, 70, 80}

\* the files of the model: the well-formed ones, the ones with a field
\* changed, the ones cut short
Inputs ==
    UNION { { Archive(v) : v \in Variations(p) }
            \cup { SubSeq(Archive(p), 1, c) : c \in { d \in Cuts : d < Len(Archive(p)) } }
            : p \in BaseLayouts }

----------------------------------------------------------------------------
(* Farc: parsing a file and querying the archive *)

\* the variables the archive leaves alone
idleIndex ==
    /\ file_data = FileNameIndex_default.file_data
    /\ file_id_by_crc32 = FileNameIndex_default.file_id_by_crc32
    /\ file_id_by_string = FileNameIndex_default.file_id_by_string

FarcInit ==
    /\ idleIndex
    /\ source \in Inputs
    /\ farc = None
    /\ hashed_files = None /\ original = None
    /\ content_sizes = None
    /\ idlePart
    /\ ret = Returned("default", None, None, FarcOk(TRUE))

\* Farc::new(source), in a build with or without overflow checks
FarcNew ==
    /\ farc = None
    /\ ret.op \in {"default", "write_hashed"}
    /\ \E overflow_checks \in BOOLEAN :
          LET r == Farc_new(source, overflow_checks)
          IN  /\ farc' = r.value
              /\ ret' = Returned("Farc::new", None, None, [r EXCEPT !.value = None])
    /\ UNCHANGED <<indexVars, source, writerVars, partVars>>

\* Farc::check_file_name(name)
FarcCheckFileName ==
    /\ is_some(farc)
    /\ ret.result.tag # "Panic"
    /\ \E name \in Names :
          LET r == farc_check_file_name(unwrap(farc).index, name)
          IN  /\ farc' = Some([unwrap(farc) EXCEPT !.index = r.index])
              /\ ret' = Returned("check_file_name", Some(name), None, r.result)
    /\ UNCHANGED <<indexVars, source, writerVars, partVars>>

\* Farc::get_named_file(name)
GetNamedFile ==
    /\ is_some(farc)
    /\ ret.result.tag # "Panic"
    /\ \E name \in Names :
          ret' = Returned("get_named_file", Some(name), None,
                          get_named_file(unwrap(farc), name))
    /\ UNCHANGED <<indexVars, farcVars, writerVars, partVars>>

\* Farc::get_unnamed_file(hash)
GetUnnamedFile ==
    /\ is_some(farc)
    /\ ret.result.tag # "Panic"
    /\ \E hash \in Hashes :
          ret' = Returned("get_unnamed_file", None, Some(hash),
                          get_unnamed_file(unwrap(farc), hash))
    /\ UNCHANGED <<indexVars, farcVars, writerVars, partVars>>

\* Farc::file_count()
FileCount ==
    /\ is_some(farc)
    /\ ret.result.tag # "Panic"
    /\ ret' = Returned("file_count", None, None, FarcOk(file_count(unwrap(farc))))
    /\ UNCHANGED <<indexVars, farcVars, writerVars, partVars>>

FarcNext ==
    \/ FarcNew
    \/ FarcCheckFileName
    \/ GetNamedFile
    \/ GetUnnamedFile
    \/ FileCount

SpecFarc == FarcInit /\ [][FarcNext]_vars

----------------------------------------------------------------------------
(* FarcWriter::new_from_farc, and the round trip through write_hashed *)

\* Farc::iter_all_hash: the hash of every entry, named or not
iter_all_hash(self) ==
    DOMAIN self.index.name_crc32
    \cup { hash_name(name) : name \in DOMAIN self.index.name_string }

\* Farc::get_hashed_file: the view of the entry of that hash, whether or not
\* its name is known
get_hashed_file(self, hash) ==
    IF hash \in DOMAIN self.index.name_crc32
    THEN get_unnamed_file(self, hash)
    ELSE IF \E name \in DOMAIN self.index.name_string : hash_name(name) = hash
    THEN get_named_file(self, CHOOSE name \in DOMAIN self.index.name_string :
                                  hash_name(name) = hash)
    ELSE FarcErr("HashedFileNotFound")

\* Read::read_to_end on a view that nothing else reads
read_to_end(file, view) == ViewBytes(file, view)

RECURSIVE drain_hashes(_, _, _)
\* the loop of new_from_farc over the hashes still to read
drain_hashes(farc_read, hashes, farc_writer) ==
    IF hashes = << >> THEN FarcOk(farc_writer)
    ELSE LET file_hash == Head(hashes)
             file == get_hashed_file(farc_read, file_hash)
         IN  IF file.tag # "Ok" THEN file
             ELSE drain_hashes(farc_read, Tail(hashes),
                      add_hashed_file(farc_writer, file_hash,
                          read_to_end(farc_read.file, unwrap(file.value))))

\* FarcWriter::new_from_farc
new_from_farc(farc_read) ==
    drain_hashes(farc_read, sort_hashes(iter_all_hash(farc_read)), EmptyMap)

\* the longest content of an entry, but for LongContent
MaxContentLen == 1

\* the bytes of the short contents
ContentBytes == {104, 105}

\* a content longer than the 16 bytes the storage file is padded by
LongContent == [i \in 1..17 |-> i]

Contents ==
    UNION { [1..n -> ContentBytes] : n \in 0..MaxContentLen } \cup {LongContent}

RoundTripHashes == {hash_name(NameA), <<4660, 22136>>, <<43981, 7>>}

\* the sets of (hash, content) entries
EntrySets == UNION { [S -> Contents] : S \in SUBSET RoundTripHashes }

\* the hash-indexed file of an entry set
EntrySetArchive(entries) ==
    LET hashes == sort_hashes(DOMAIN entries)
    IN  Archive(HashLayout(hashes, [k \in 1..Len(hashes) |-> entries[hashes[k]]]))

RoundTripInit ==
    /\ idleIndex
    /\ source \in { EntrySetArchive(entries) : entries \in EntrySets }
    /\ farc = None
    /\ hashed_files = None /\ original = None
    /\ content_sizes = None
    /\ idlePart
    /\ ret = Returned("default", None, None, FarcOk(TRUE))

\* FarcWriter::new_from_farc(&farc)
NewFromFarc ==
    /\ is_some(farc)
    /\ is_none(hashed_files)
    /\ ret.result.tag # "Panic"
    /\ LET r == new_from_farc(unwrap(farc))
       IN  /\ hashed_files' = r.value
           /\ original' = IF r.tag = "Ok" THEN farc ELSE original
           /\ ret' = Returned("new_from_farc", None, None, [r EXCEPT !.value = None])
    /\ UNCHANGED <<indexVars, farcVars, content_sizes, partVars>>

\* FarcWriter::write_hashed(&mut file): the file written replaces the source
WriteHashed ==
    /\ is_some(hashed_files)
    /\ ret.op \in {"default", "add_hashed_file", "new_from_farc"}
    /\ LET r == write_hashed(unwrap(hashed_files))
       IN  /\ r.tag = "Ok"
           /\ source' = r.file
           /\ farc' = None
           /\ ret' = Returned("write_hashed", None, None, FarcOk(TRUE))
    /\ UNCHANGED <<indexVars, writerVars, partVars>>

RoundTripNext ==
    \/ FarcNew
    \/ FarcCheckFileName
    \/ NewFromFarc
    \/ WriteHashed

SpecRoundTrip == RoundTripInit /\ [][RoundTripNext]_vars

----------------------------------------------------------------------------
(* FarcWriter: entries added by hand, then written *)

\* the most entries a writer is given
MaxWriterFiles == 6

WriterHashes == { <<k, 7 - k>> : k \in 1..MaxWriterFiles }

WriterContents == { << >>, <<105>>, LongContent }

\* FarcWriter::default()
WriterInit ==
    /\ idleIndex
    /\ source = << >>
    /\ farc = None
    /\ hashed_files = Some(EmptyMap) /\ original = None
    /\ content_sizes = None
    /\ idlePart
    /\ ret = Returned("default", None, None, FarcOk(TRUE))

\* FarcWriter::add_hashed_file(hash, content), before the writer is written
AddHashedFile ==
    /\ is_some(hashed_files)
    /\ source = << >>
    /\ ret.op # "write_hashed"
    /\ \E hash \in WriterHashes, content \in WriterContents :
          /\ hashed_files' = Some(add_hashed_file(unwrap(hashed_files), hash, content))
          /\ ret' = Returned("add_hashed_file", None, None, FarcOk(TRUE))
    /\ UNCHANGED <<indexVars, farcVars, original, content_sizes, partVars>>

WriterNext ==
    \/ AddHashedFile
    \/ WriteHashed

SpecWriter == WriterInit /\ [][WriterNext]_vars

----------------------------------------------------------------------------
(* write_hashed on contents of any length: the values of the 32-bit fields *)

\* a usize or u64 as <<hi, lo>>, lo its low 16 bits and hi the rest
wide_add(a, b) ==
    LET lo == a[2] + b[2]
    IN  << a[1] + b[1] + (lo \div 65536), lo % 65536 >>

\* TryInto::<u32>::try_into of a usize or u64
wide_try_into_u32(w) == IF w[1] < 65536 THEN Some(w) ELSE None

\* u32 + u32 in a build with or without overflow checks
checked_build_add(a, b, overflow_checks) ==
    LET sum == u32_add(a, b)
    IN  IF sum.overflow /\ overflow_checks
        THEN Panic("attempt to add with overflow")
        ELSE FarcOk(sum.value)

RECURSIVE size_entries(_, _, _)
\* the loop of write_hashed over the lengths of the contents in hash order:
\* the position of the storage file and the starts and lengths recorded
size_entries(lengths, i, acc) ==
    IF i > Len(lengths) THEN acc
    ELSE
    LET file_start == acc.position
        file_lenght == lengths[i]
        written == wide_add(acc.position, file_lenght)
        position == IF written[2] % 16 # 0
                    THEN wide_add(written, <<0, written[2] % 16>>)
                    ELSE written
        start32 == wide_try_into_u32(file_start)
        lenght32 == wide_try_into_u32(file_lenght)
    IN  IF is_none(start32) \/ is_none(lenght32)
        THEN [acc EXCEPT !.too_big = TRUE]
        ELSE size_entries(lengths, i + 1,
                 [acc EXCEPT !.position = position,
                             !.starts = Append(@, unwrap(start32)),
                             !.lengths = Append(@, unwrap(lenght32)),
                             !.exact_starts = Append(@, file_start)])

\* FarcWriter::write_hashed on the lengths of its contents: TooBig, the abort
\* of an overflow, or the values written in the 32-bit fields with the exact
\* values they stand for
write_hashed_fields(lengths, overflow_checks) ==
    LET entries == size_entries(lengths, 1,
                       [position |-> <<0, 0>>, starts |-> << >>, lengths |-> << >>,
                        exact_starts |-> << >>, too_big |-> FALSE])
        count == try_into_u32(Len(lengths))
        meta_size == Len(write_meta(Zeros(16 + 12 * Len(lengths)), U32(0)).meta_file)
        meta_file_lenght == try_into_u32(meta_size)
        storage_file_lenght == wide_try_into_u32(entries.position)
        too_big == [tag |-> "TooBig", error |-> "", value |-> None]
    IN  IF entries.too_big \/ is_none(count) \/ is_none(meta_file_lenght)
           \/ is_none(storage_file_lenght)
        THEN too_big
        ELSE
        LET no_padding_storage_start ==
                checked_build_add(U32(128), unwrap(meta_file_lenght), overflow_checks)
        IN  IF no_padding_storage_start.tag # "Ok" THEN no_padding_storage_start
            ELSE
            LET no_padding == unwrap(no_padding_storage_start.value)
                padding_size_storage_start ==
                    IF no_padding[2] % 256 # 0
                    THEN U32(256 - (no_padding[2] % 256))
                    ELSE U32(0)
                storage_start == checked_build_add(no_padding,
                                     padding_size_storage_start, overflow_checks)
                all_data_length == checked_build_add(unwrap(storage_file_lenght),
                                       U32(112), overflow_checks)
            IN  IF storage_start.tag # "Ok" THEN storage_start
                ELSE IF all_data_length.tag # "Ok" THEN all_data_length
                ELSE FarcOk([starts |-> entries.starts,
                             lengths |-> entries.lengths,
                             count |-> unwrap(count),
                             sir0_length |-> unwrap(meta_file_lenght),
                             all_data_offset |-> unwrap(storage_start.value),
                             all_data_length |-> unwrap(all_data_length.value),
                             exact_starts |-> entries.exact_starts,
                             exact_storage_size |-> entries.position])

\* the most contents whose lengths are given
MaxSizeEntries == 2

\* lengths of contents: small ones, and ones about 2^31 and 2^32
ContentSizes ==
    { <<0, 0>>, <<0, 1>>, <<0, 17>>, <<1, 0>>, <<32768, 0>>, <<65535, 65436>>,
      <<65535, 65535>>, <<65536, 0>>, <<65536, 5>> }

SizesInit ==
    /\ idleIndex
    /\ source = << >>
    /\ farc = None
    /\ hashed_files = None /\ original = None
    /\ content_sizes \in
          { Some(l) : l \in UNION { [1..n -> ContentSizes] : n \in 0..MaxSizeEntries } }
    /\ idlePart
    /\ ret = Returned("default", None, None, FarcOk(TRUE))

\* FarcWriter::write_hashed, in a build with or without overflow checks
WriteHashedSizes ==
    /\ is_some(content_sizes)
    /\ ret.op = "default"
    /\ \E overflow_checks \in BOOLEAN :
          ret' = Returned("write_hashed", None, None,
                          write_hashed_fields(unwrap(content_sizes), overflow_checks))
    /\ UNCHANGED <<indexVars, farcVars, writerVars, partVars>>

SizesNext ==
    \/ WriteHashedSizes

SpecWriterSizes == SizesInit /\ [][SizesNext]_vars

----------------------------------------------------------------------------
(* PartitionMutex: the views of the sub-files of one archive *)

\* the views open at a time
ViewIds == {1, 2}

\* the size of the buffer of a read
ChunkLen == 2

\* the files the views are opened on: two entries by hash, two entries by name
PartitionSources ==
    { Archive(HashLayout(<<hash_name(NameA), <<4660, 22136>> >>,
                         << <<104, 105>>, <<1, 2, 3>> >>)),
      Archive(NameLayout(<<Utf16(NameA), Utf16(NameB)>>,
                         << <<104, 105>>, <<1, 2, 3>> >>)) }

\* a view as PartitionMutex::new returns it: at offset 0 of its range, about
\* to be read fully
NewView(partition, key) ==
    [start |-> partition.start, length |-> partition.length, cursor |-> 0,
     key |-> key, pc |-> "idle", phase |-> "first", last |-> 0,
     first |-> << >>, second |-> << >>]

PartitionInit ==
    /\ idleIndex
    /\ source \in PartitionSources
    /\ farc = None
    /\ hashed_files = None /\ original = None
    /\ content_sizes = None
    /\ lock = None /\ file_position = 0
    /\ views = [v \in ViewIds |-> None]
    /\ ret = Returned("default", None, None, FarcOk(TRUE))

\* Farc::get_unnamed_file(hash) gives a new view
OpenHashed ==
    \E v \in ViewIds, hash \in Hashes :
        /\ is_some(farc)
        /\ is_none(views[v])
        /\ LET r == get_unnamed_file(unwrap(farc), hash)
           IN  /\ r.tag = "Ok"
               /\ views' = [views EXCEPT
                               ![v] = Some(NewView(unwrap(r.value), <<"hash", hash>>))]
        /\ UNCHANGED <<indexVars, farcVars, writerVars, lock, file_position, ret>>

\* Farc::get_named_file(name) gives a new view
OpenNamed ==
    \E v \in ViewIds, name \in Names :
        /\ is_some(farc)
        /\ is_none(views[v])
        /\ LET r == get_named_file(unwrap(farc), name)
           IN  /\ r.tag = "Ok"
               /\ views' = [views EXCEPT
                               ![v] = Some(NewView(unwrap(r.value), <<"name", name>>))]
        /\ UNCHANGED <<indexVars, farcVars, writerVars, lock, file_position, ret>>

\* a read or a seek on a view starts: it takes the lock of the source
Acquire ==
    \E v \in ViewIds :
        /\ is_some(views[v])
        /\ unwrap(views[v]).pc = "idle"
        /\ unwrap(views[v]).phase # "done"
        /\ lock = None
        /\ lock' = Some(v)
        /\ views' = [views EXCEPT ![v] = Some([unwrap(@) EXCEPT !.pc = "locked"])]
        /\ UNCHANGED <<indexVars, farcVars, writerVars, file_position, ret>>

\* the holder of the lock seeks the source to the offset of its view: a read
\* to start + cursor, a seek to the start of the view to start
SeekSource ==
    \E v \in ViewIds :
        /\ lock = Some(v)
        /\ unwrap(views[v]).pc = "locked"
        /\ LET view == unwrap(views[v])
           IN  IF view.phase = "seek"
               THEN /\ file_position' = view.start
                    /\ views' = [views EXCEPT
                                   ![v] = Some([view EXCEPT !.cursor = 0, !.pc = "read"])]
               ELSE /\ file_position' = view.start + view.cursor
                    /\ views' = [views EXCEPT
                                   ![v] = Some([view EXCEPT !.pc = "sought"])]
        /\ UNCHANGED <<indexVars, farcVars, writerVars, lock, ret>>

\* the holder of the lock reads the source where it stands: at most ChunkLen
\* bytes, and none past the end of the view
ReadSource ==
    \E v \in ViewIds :
        /\ lock = Some(v)
        /\ unwrap(views[v]).pc = "sought"
        /\ LET view == unwrap(views[v])
               n == IF view.length - view.cursor < ChunkLen
                    THEN view.length - view.cursor ELSE ChunkLen
               bytes == SubSeq(source, file_position + 1, file_position + n)
           IN  /\ file_position' = file_position + n
               /\ views' = [views EXCEPT ![v] = Some(
                      [view EXCEPT !.cursor = @ + n, !.last = n, !.pc = "read",
                                   !.first = IF view.phase = "first"
                                             THEN @ \o bytes ELSE @,
                                   !.second = IF view.phase = "second"
                                              THEN @ \o bytes ELSE @])]
        /\ UNCHANGED <<indexVars, farcVars, writerVars, lock, ret>>

\* the call returns and gives the lock back; read_to_end ends with the read
\* that returns no byte
Release ==
    \E v \in ViewIds :
        /\ lock = Some(v)
        /\ unwrap(views[v]).pc = "read"
        /\ lock' = None
        /\ LET view == unwrap(views[v])
               phase == IF view.phase = "seek" THEN "second"
                        ELSE IF view.last # 0 THEN view.phase
                        ELSE IF view.phase = "first" THEN "seek"
                        ELSE "done"
           IN  views' = [views EXCEPT
                           ![v] = Some([view EXCEPT !.pc = "idle", !.phase = phase])]
        /\ UNCHANGED <<indexVars, farcVars, writerVars, file_position, ret>>

PartitionNext ==
    \/ FarcNew
    \/ OpenHashed
    \/ OpenNamed
    \/ Acquire
    \/ SeekSource
    \/ ReadSource
    \/ Release

SpecPartition == PartitionInit /\ [][PartitionNext]_vars

----------------------------------------------------------------------------
(* Properties of the index *)

IsAdd(r) == r.op \in {"add_file_with_name", "add_file_with_hash"}

IsConflict(r) == IsAdd(r) /\ r.result # Ok

\* the positions of file_data (1-based)
Positions == 1..Len(file_data)

\* C1: an add that returns a FileNameError leaves the entry sequence, the hash
\* map and the name map as they were, and with them len() and every lookup
C1_ConflictAtomicity ==
    [][ IsConflict(ret') =>
          /\ file_data' = file_data
          /\ file_id_by_crc32' = file_id_by_crc32
          /\ file_id_by_string' = file_id_by_string
          /\ len(index') = len(index)
          /\ \A name \in Names :
                get_file_by_name(index', name) = get_file_by_name(index, name)
          /\ \A hash \in Hashes :
                get_file_by_hash(index', hash) = get_file_by_hash(index, hash)
      ]_vars

\* a named add has just been rejected on its hash, after its name had been
\* provisionally registered
C1_Witness ==
    /\ ret.op = "add_file_with_name"
    /\ ret.result.tag \in {"HashAlreadyPresentOne", "HashAlreadyPresentTwo"}
    /\ unwrap(ret.name) \notin DOMAIN file_id_by_string

\* C5: no two entries share a name_hash, no two entries share a name, and an
\* add that would duplicate a hash or a name is rejected and stores nothing
C5_IdentityUniqueness ==
    /\ \A i, j \in Positions :
          i # j =>
            /\ file_data[i].name_hash # file_data[j].name_hash
            /\ is_some(file_data[i].name) => file_data[i].name # file_data[j].name
    /\ \A e \in Extents :
          /\ \A name \in Names :
                (\E i \in Positions :
                    \/ file_data[i].name = Some(name)
                    \/ file_data[i].name_hash = hash_name(name))
                => LET r == add_file_with_name(index, name, e[1], e[2])
                   IN  r.result # Ok /\ r.index.file_data = file_data
          /\ \A hash \in Hashes :
                (\E i \in Positions : file_data[i].name_hash = hash)
                => LET r == add_file_with_hash(index, hash, e[1], e[2])
                   IN  r.result # Ok /\ r.index.file_data = file_data

\* an add has just been rejected for its name while the index holds two entries
C5_Witness ==
    /\ Len(file_data) >= 2
    /\ IsAdd(ret)
    /\ ret.result.tag = "NameAlreadyPresent"

\* C6: every entry with a name has the hash of that name
C6_NameHashAgreement ==
    \A i \in Positions :
        is_some(file_data[i].name) =>
            file_data[i].name_hash = hash_name(unwrap(file_data[i].name))

\* one entry was added with a name, and check_file_name has just given the
\* two-character name to an entry added by hash
C6_Witness ==
    /\ ret.op = "check_file_name"
    /\ ret.result = TRUE
    /\ ret.name = Some(NameX)
    /\ \E i \in Positions : file_data[i].name = Some(NameB)
    /\ \E i \in Positions : file_data[i].name = Some(NameX)

\* the entry at position i but for its name
Extent(self, i) ==
    [start |-> self.file_data[i].start, length |-> self.file_data[i].length,
     name_hash |-> self.file_data[i].name_hash]

\* C7: with an unnamed entry of hash hash_name(n), check_file_name(n) answers
\* true, the same call made again answers false and changes nothing, and no
\* entry's name_hash, start or length changes in either call
C7_CheckFileNameIdempotent ==
    \A name \in Names :
        (\E i \in Positions :
            /\ file_data[i].name_hash = hash_name(name)
            /\ is_none(file_data[i].name))
        => LET first == check_file_name(index, name)
               second == check_file_name(first.index, name)
           IN  /\ first.result = TRUE
               /\ second.result = FALSE
               /\ second.index = first.index
               /\ Len(first.index.file_data) = Len(file_data)
               /\ \A i \in Positions :
                     /\ Extent(first.index, i) = Extent(index, i)
                     /\ Extent(second.index, i) = Extent(index, i)

\* check_file_name has just answered true
C7_Witness ==
    /\ ret.op = "check_file_name"
    /\ ret.result = TRUE
    /\ \E i \in Positions : file_data[i].name = ret.name

\* C9: get_file_by_name(n) is the entry named n if there is one, else the
\* unnamed entry of hash hash_name(n) if there is one, else None; what it
\* returns has hash hash_name(n)
C9_GetFileByName ==
    \A name \in Names :
        LET got == get_file_by_name(index, name)
            named == {i \in Positions : file_data[i].name = Some(name)}
            hashed == {i \in Positions :
                          /\ file_data[i].name_hash = hash_name(name)
                          /\ is_none(file_data[i].name)}
        IN  /\ named # {} => \E i \in named : got = Some(file_data[i])
            /\ (named = {} /\ hashed # {}) => \E i \in hashed : got = Some(file_data[i])
            /\ (named = {} /\ hashed = {}) => got = None
            /\ is_some(got) => unwrap(got).name_hash = hash_name(name)

\* get_file_by_name has just returned None for a name whose hash belongs to an
\* entry that carries another name
C9_Witness ==
    /\ ret.op = "get_file_by_name"
    /\ ret.result = None
    /\ \E i \in Positions :
          /\ file_data[i].name_hash = hash_name(unwrap(ret.name))
          /\ is_some(file_data[i].name)
          /\ file_data[i].name # ret.name

\* C10: check_file_name(n) answers false and changes nothing when no entry has
\* hash hash_name(n) or the entry with that hash already has a name
C10_CheckFileNameNeverOverwrites ==
    \A name \in Names :
        (\A i \in Positions :
            file_data[i].name_hash = hash_name(name) => is_some(file_data[i].name))
        => check_file_name(index, name) = [index |-> index, result |-> FALSE]

\* check_file_name has just answered false for a name whose hash belongs to an
\* entry that carries another name
C10_Witness ==
    /\ ret.op = "check_file_name"
    /\ ret.result = FALSE
    /\ \E i \in Positions :
          /\ file_data[i].name_hash = hash_name(unwrap(ret.name))
          /\ is_some(file_data[i].name)
          /\ file_data[i].name # ret.name

\* the hash an add was made with
AddedHash(r) == IF is_some(r.hash) THEN unwrap(r.hash) ELSE hash_name(unwrap(r.name))

\* the name of the entry stored under that hash
StoredName(hash) ==
    file_data[CHOOSE i \in Positions : file_data[i].name_hash = hash].name

\* C19 as stated: an add whose name is registered fails with
\* NameAlreadyPresent; any other add that fails is in one of three cases:
\* neither entry named, only the stored entry named, both named
C19_ThreeCases ==
    [][ IsConflict(ret') =>
          LET h == AddedHash(ret')
              new == ret'.name
          IN  IF is_some(new) /\ unwrap(new) \in DOMAIN file_id_by_string
              THEN ret'.result = NameAlreadyPresent(unwrap(new))
              ELSE /\ \E i \in Positions : file_data[i].name_hash = h
                   /\ \/ /\ is_none(new) /\ is_none(StoredName(h))
                         /\ ret'.result = HashAlreadyPresent(h)
                      \/ /\ is_none(new) /\ is_some(StoredName(h))
                         /\ ret'.result = HashAlreadyPresentOne(h, unwrap(StoredName(h)))
                      \/ /\ is_some(new) /\ is_some(StoredName(h))
                         /\ ret'.result = HashAlreadyPresentTwo(h, unwrap(new),
                                              unwrap(StoredName(h)))
      ]_vars

\* C19 amended: there is a fourth case, only the entry being added named,
\* and it reports HashAlreadyPresentOne with the name being added
C19_FourCases ==
    [][ IsConflict(ret') =>
          LET h == AddedHash(ret')
              new == ret'.name
          IN  IF is_some(new) /\ unwrap(new) \in DOMAIN file_id_by_string
              THEN ret'.result = NameAlreadyPresent(unwrap(new))
              ELSE /\ \E i \in Positions : file_data[i].name_hash = h
                   /\ \/ /\ is_none(new) /\ is_none(StoredName(h))
                         /\ ret'.result = HashAlreadyPresent(h)
                      \/ /\ is_none(new) /\ is_some(StoredName(h))
                         /\ ret'.result = HashAlreadyPresentOne(h, unwrap(StoredName(h)))
                      \/ /\ is_some(new) /\ is_none(StoredName(h))
                         /\ ret'.result = HashAlreadyPresentOne(h, unwrap(new))
                      \/ /\ is_some(new) /\ is_some(StoredName(h))
                         /\ ret'.result = HashAlreadyPresentTwo(h, unwrap(new),
                                              unwrap(StoredName(h)))
      ]_vars

\* an add with a name has just been rejected on the hash of an entry stored
\* without a name, and reports the name being added
C19_Witness ==
    /\ ret.op = "add_file_with_name"
    /\ ret.result = HashAlreadyPresentOne(hash_name(unwrap(ret.name)), unwrap(ret.name))
    /\ is_none(StoredName(hash_name(unwrap(ret.name))))
    /\ Len(file_data) >= 2

\* C20: the hash map has one key for each entry and maps the name_hash of an
\* entry to its position; the name map maps n to p exactly when the entry at
\* p is named n; every position in a map is a position of file_data
C20_MapConsistency ==
    /\ Cardinality(DOMAIN file_id_by_crc32) = Len(file_data)
    /\ \A h \in DOMAIN file_id_by_crc32 :
          /\ file_id_by_crc32[h] \in 0..(Len(file_data) - 1)
          /\ file_data[file_id_by_crc32[h] + 1].name_hash = h
    /\ \A i \in Positions : MapGet(file_id_by_crc32, file_data[i].name_hash) = Some(i - 1)
    /\ \A n \in DOMAIN file_id_by_string :
          /\ file_id_by_string[n] \in 0..(Len(file_data) - 1)
          /\ file_data[file_id_by_string[n] + 1].name = Some(n)
    /\ \A i \in Positions :
          is_some(file_data[i].name) =>
              MapGet(file_id_by_string, unwrap(file_data[i].name)) = Some(i - 1)

\* three entries: one added with its name, one named by check_file_name just
\* now, one without a name
C20_Witness ==
    /\ Len(file_data) = 3
    /\ ret.op = "check_file_name"
    /\ ret.result = TRUE
    /\ Cardinality(DOMAIN file_id_by_string) = 2
    /\ \E i \in Positions : is_none(file_data[i].name)

----------------------------------------------------------------------------
(* Properties of Farc *)

\* C3: Farc::new returns an archive or a FarcError on every file; it never
\* aborts
C3_FuzzSafety ==
    ret.op = "Farc::new" => ret.result.tag \in {"Ok", "Err"}

\* C8: a hash that get_unnamed_file resolves resolves to the same extent after
\* a call of check_file_name, the call that names its entry included
C8_HashLookupIndependentOfNaming ==
    [][ (is_some(farc) /\ ret'.op = "check_file_name") =>
          \A hash \in Hashes :
              get_unnamed_file(unwrap(farc), hash).tag = "Ok" =>
                  get_unnamed_file(unwrap(farc'), hash)
                      = get_unnamed_file(unwrap(farc), hash)
      ]_vars

\* C11: an archive that Farc::new returns has one key, hash or name, for each
\* entry of its table: no entry has taken the key of another
C11_ParseRejectsConflicts ==
    (ret.op = "Farc::new" /\ is_some(farc)) =>
        Len(unwrap(farc).index.file_data) = file_count(unwrap(farc))

\* C12: an archive that Farc::new returns stores no start below
\* all_data_offset, as a sum wrapped modulo 2^32 is, and Farc::new does not
\* abort on the sum
C12_CheckedDataOffset ==
    ret.op = "Farc::new" =>
        /\ ret.result # Panic("attempt to add with overflow")
        /\ is_some(farc) =>
              \A i \in 1..Len(unwrap(farc).index.file_data) :
                  ~ u32_less(unwrap(farc).index.file_data[i].start,
                             unwrap(read_u32_le(source, 44)))

\* the header the codec yields for the Sir0 block of a file, when it yields
\* one
DecodedHeader(file) ==
    LET sir0_offset == read_u32_le(file, 36)
        sir0_lenght == read_u32_le(file, 40)
    IN  IF is_none(sir0_offset) \/ is_none(sir0_lenght) THEN None
        ELSE
        LET sir0_partition ==
                PartitionMutex_new(file, unwrap(sir0_offset), unwrap(sir0_lenght))
        IN  IF is_none(sir0_partition) THEN None
            ELSE LET sir0 == Sir0_new(ViewBytes(file, unwrap(sir0_partition)))
                 IN  IF sir0.tag = "Ok" THEN Some(unwrap(sir0.value).header)
                     ELSE None

\* C13: on a file whose codec header is shorter than 12 bytes Farc::new
\* returns an error
C13_ShortHeaderIsError ==
    (/\ ret.op = "Farc::new"
     /\ is_some(DecodedHeader(source))
     /\ Len(unwrap(DecodedHeader(source))) < 12)
    => ret.result.tag = "Err"

\* C14: on a file that does not begin with the magic "FARC" Farc::new returns
\* an error
C14_MagicValidated ==
    (/\ ret.op = "Farc::new"
     /\ read_exact(source, 0, 4) # Some(<<70, 65, 82, 67>>))
    => ret.result.tag = "Err"

\* C21: in an archive that Farc::new returned no name is in name_string while
\* its hash is in name_crc32, so check_file_name never aborts; a call that
\* answers true takes one entry from the unnamed count to the named count and
\* leaves file_count() as it was
C21_HashMismatchUnreachable ==
    [][ (is_some(farc) /\ ret'.op = "check_file_name") =>
          /\ \A name \in Names :
                ~ (/\ name \in DOMAIN unwrap(farc).index.name_string
                   /\ hash_name(name) \in DOMAIN unwrap(farc).index.name_crc32)
          /\ ret'.result.tag = "Ok"
          /\ ret'.result = FarcOk(TRUE) =>
                /\ file_count_hashed(unwrap(farc')) = file_count_hashed(unwrap(farc)) - 1
                /\ file_count_named(unwrap(farc')) = file_count_named(unwrap(farc)) + 1
                /\ file_count(unwrap(farc')) = file_count(unwrap(farc))
      ]_vars

\* check_file_name has just answered true for the second of two names of one
\* hash, in an archive that keeps another entry without a name
C21_Witness ==
    /\ is_some(farc)
    /\ ret.op = "check_file_name"
    /\ ret.result = FarcOk(TRUE)
    /\ ret.name = Some(NameX)
    /\ file_count_named(unwrap(farc)) = 1
    /\ file_count_hashed(unwrap(farc)) = 1

\* the archive has been parsed from the file write_hashed wrote
Reparsed ==
    /\ is_some(original)
    /\ is_some(farc)
    /\ unwrap(farc).file # unwrap(original).file

\* the bytes of the entry of that hash, or None when it does not resolve
HashedContent(self, hash) ==
    LET file == get_hashed_file(self, hash)
    IN  IF file.tag = "Ok" THEN Some(read_to_end(self.file, unwrap(file.value)))
        ELSE None

\* C2: the file that write_hashed writes from new_from_farc(original) parses,
\* and the archive parsed has as many entries as the original and, under every
\* hash of the original, the bytes the original has
C2_RoundTrip ==
    /\ (is_some(original) /\ ret.op = "Farc::new") => ret.result.tag = "Ok"
    /\ Reparsed =>
          /\ file_count(unwrap(farc)) = file_count(unwrap(original))
          /\ iter_all_hash(unwrap(farc)) = iter_all_hash(unwrap(original))
          /\ \A hash \in iter_all_hash(unwrap(original)) :
                /\ is_some(HashedContent(unwrap(farc), hash))
                /\ HashedContent(unwrap(farc), hash)
                      = HashedContent(unwrap(original), hash)

\* an archive of three entries, one of them named and one longer than 16
\* bytes, has been written and parsed again
C2_Witness ==
    /\ Reparsed
    /\ ret.op = "Farc::new"
    /\ file_count(unwrap(original)) = 3
    /\ file_count_named(unwrap(original)) = 1
    /\ \E hash \in iter_all_hash(unwrap(original)) :
          HashedContent(unwrap(farc), hash) = Some(LongContent)
    /\ \E hash \in iter_all_hash(unwrap(original)) :
          HashedContent(unwrap(farc), hash) = Some(<<105>>)

\* the bytes of the extent [start, start + length) of the entry a view was
\* opened on
ExtentBytes(view) ==
    LET data == IF view.key[1] = "hash"
                THEN get_unnamed_file_data(unwrap(farc).index, view.key[2])
                ELSE get_named_file_data(unwrap(farc).index, view.key[2])
    IN  SubSeq(source, unwrap(data).start[2] + 1,
               unwrap(data).start[2] + unwrap(data).length[2])

\* s is the first bytes of t
IsPrefix(s, t) == Len(s) <= Len(t) /\ s = SubSeq(t, 1, Len(s))

\* C4: whatever the other view does in between, a view reads the bytes of its
\* own extent: what it has read so far begins the extent, a full read is the
\* extent, and so is the full read after the seek to the start
C4_PartitionIndependence ==
    \A v \in ViewIds :
        is_some(views[v]) =>
            LET view == unwrap(views[v])
            IN  /\ IsPrefix(view.first, ExtentBytes(view))
                /\ IsPrefix(view.second, ExtentBytes(view))
                /\ view.phase \in {"seek", "second", "done"} =>
                       view.first = ExtentBytes(view)
                /\ view.phase = "done" => view.second = ExtentBytes(view)

\* the first view is part way through its second read and holds the lock to
\* read on, while the read the second view made in between has left the source
\* at the end of the second view's extent
C4_Witness ==
    /\ \A v \in ViewIds : is_some(views[v])
    /\ unwrap(views[1]).key # unwrap(views[2]).key
    /\ lock = Some(1)
    /\ unwrap(views[1]).pc = "locked"
    /\ unwrap(views[1]).phase = "second"
    /\ unwrap(views[1]).second = <<1, 2>>
    /\ unwrap(views[2]).phase = "first"
    /\ unwrap(views[2]).first = <<104, 105>>
    /\ file_position = unwrap(views[2]).start + 2
    /\ file_position # unwrap(views[1]).start + unwrap(views[1]).cursor

----------------------------------------------------------------------------
(* Properties of the file write_hashed writes *)

\* the storage file and the table of the entries of the writer
WrittenEntries ==
    write_entries(unwrap(hashed_files), sort_hashes(DOMAIN unwrap(hashed_files)), 1,
        [storage_file |-> << >>, meta_file |-> Zeros(12) \o Zeros(4),
         too_big |-> FALSE])

\* the meta file of the writer and the positions recorded in it
WrittenMeta ==
    write_meta(WrittenEntries.meta_file,
               unwrap(try_into_u32(Cardinality(DOMAIN unwrap(hashed_files)))))

\* the u32 at an offset of the file written
Field(offset) == unwrap(read_u32_le(source, offset))

\* the start recorded in the file written for the k-th entry, from 0
RecordedStart(k) == Field(128 + 16 + 12 * k + 4)

\* C16: every start recorded in the table of the file written is a multiple
\* of 16, and so is the length of the storage region
C16_StorageAlignment ==
    ret.op = "write_hashed" =>
        /\ \A k \in 0..(Cardinality(DOMAIN unwrap(hashed_files)) - 1) :
              RecordedStart(k)[2] % 16 = 0
        /\ (Len(source) - Field(44)[2]) % 16 = 0

\* C17: the third pointer given to write_sir0_footer is the position of the
\* sir0 header, the one the file written names at offset 4 of its Sir0 block
C17_HeaderPointer ==
    ret.op = "write_hashed" =>
        /\ Len(WrittenMeta.meta_pointer) = 3
        /\ WrittenMeta.meta_pointer[3] = WrittenMeta.sir0_header_position
        /\ U32(WrittenMeta.meta_pointer[3]) = Field(128 + 4)

\* C18: the file written names 0x80 as the offset of the Sir0 block, the size
\* of the meta file as its length, and as the offset of the data the least
\* multiple of 256 not below 0x80 + that size; it is a header of 0x80 bytes
\* that is zero past its fields, the meta file, zeros up to the offset of the
\* data, and the storage file
C18_OuterLayout ==
    ret.op = "write_hashed" =>
        LET meta_length == Len(WrittenMeta.meta_file)
            all_data_offset == Field(44)[2]
        IN  /\ SubSeq(source, 1, 4) = <<70, 65, 82, 67>>
            /\ Field(36) = U32(128)
            /\ Field(40) = U32(meta_length)
            /\ Field(44)[1] = 0
            /\ all_data_offset % 256 = 0
            /\ all_data_offset >= 128 + meta_length
            /\ all_data_offset - 256 < 128 + meta_length
            /\ Len(source) = all_data_offset + Len(WrittenEntries.storage_file)
            /\ SubSeq(source, 53, 128) = Zeros(128 - 52)
            /\ SubSeq(source, 129, 128 + meta_length) = WrittenMeta.meta_file
            /\ SubSeq(source, 128 + meta_length + 1, all_data_offset)
                  = Zeros(all_data_offset - 128 - meta_length)
            /\ SubSeq(source, all_data_offset + 1, Len(source))
                  = WrittenEntries.storage_file

\* six entries have been written: the meta file ends at 256, no padding
\* follows it, and the storage file is not empty
C18_Witness ==
    /\ ret.op = "write_hashed"
    /\ Cardinality(DOMAIN unwrap(hashed_files)) = 6
    /\ 128 + Len(WrittenMeta.meta_file) = 256
    /\ Field(44) = U32(256)
    /\ Len(source) > 256 + 17

\* w stands for a value that fits in 32 bits
Fits(w) == w[1] < 65536

\* C15: write_hashed ends with Ok or TooBig; when it ends with Ok every start
\* and the length of the data written are the exact values, and when the exact
\* length of the data, storage size + 112, does not fit in 32 bits it ends
\* with TooBig
C15_NoTruncationOnWrite ==
    (ret.op = "write_hashed" /\ is_some(content_sizes)) =>
        /\ ret.result.tag \in {"Ok", "TooBig"}
        /\ ret.result.tag = "Ok" =>
              LET fields == unwrap(ret.result.value)
              IN  /\ fields.starts = fields.exact_starts
                  /\ fields.lengths = unwrap(content_sizes)
                  /\ fields.all_data_length
                        = wide_add(fields.exact_storage_size, <<0, 112>>)
                  /\ Fits(wide_add(fields.exact_storage_size, <<0, 112>>))

====
